---------------------------- MODULE Spec2Model ----------------------------
(***************************************************************************)
(* Model of src/convert.rs: the TryInto conversions from a JsonResponse    *)
(* (an already parsed serde_json::Value) to the typed RPC responses.       *)
(*                                                                         *)
(* Every conversion is a pure function.  The state machine draws one JSON  *)
(* value, applies one conversion to it and records the outcome: Ok(value)  *)
(* or a panic (unwrap on None/Err, assert_eq!).  No conversion of the      *)
(* source ever builds an Err value.                                        *)
(*                                                                         *)
(* Numbers.  TLC integers are 32 bit wide, the program's are u32, u64, i64 *)
(* and f64.  Wide integers are little-endian sequences of 16-bit limbs, so *)
(* that a u64 has 4 limbs and `as u32` keeps the low 2.  A float is a      *)
(* sign, an integral part (limbs) and a fraction in units of 10^-9: the    *)
(* decimal value that Rust prints for the f64.                             *)
(* Strings are sequences of one-character strings.                         *)
(***************************************************************************)
EXTENDS Integers, Naturals, Sequences, FiniteSets, TLC

VARIABLES input, usizeBits, called, result

vars == <<input, usizeBits, called, result>>

(***************************************************************************)
(* Bounds of the model.                                                    *)
(***************************************************************************)
MaxUtxos == 2

(***************************************************************************)
(* Wide unsigned integers.                                                 *)
(***************************************************************************)
LimbBits == 16

LimbBase == 2 ^ LimbBits

U64Limbs == 64 \div LimbBits

U32Limbs == 32 \div LimbBits

\* the limbs of a natural number n < 2^31, in a number of `len` limbs
Limbs(n, len) ==
    [i \in 1..len |-> IF i = 1 THEN n % LimbBase
                      ELSE IF i = 2 THEN n \div LimbBase
                      ELSE 0]

\* the low `len` limbs of b, zero-extended when b is shorter
Resize(b, len) == [i \in 1..len |-> IF i <= Len(b) THEN b[i] ELSE 0]

\* b fits in `len` limbs
Fits(b, len) == \A i \in 1..Len(b) : i > len => b[i] = 0

\* numeric equality of two limb sequences of any lengths
NumEq(a, b) ==
    LET n == IF Len(a) > Len(b) THEN Len(a) ELSE Len(b)
    IN  Resize(a, n) = Resize(b, n)

\* b * k + c as a number one limb longer than b (k < 2^15, c < 2^30)
RECURSIVE MulAdd(_, _, _)
MulAdd(b, k, c) ==
    IF b = <<>> THEN <<c>>
    ELSE LET t == Head(b) * k + c
         IN  <<t % LimbBase>> \o MulAdd(Tail(b), k, t \div LimbBase)

\* <<quotient, remainder>> of b by d (d < 2^15), from the top limb down
RECURSIVE DivRem(_, _)
DivRem(b, d) ==
    IF b = <<>> THEN <<(<<>>), 0>>
    ELSE LET hi == DivRem(Tail(b), d)
             t  == hi[2] * LimbBase + Head(b)
         IN  <<(<<t \div d>> \o hi[1]), t % d>>

(***************************************************************************)
(* Option<T>: the empty sequence is None, <<v>> is Some(v).                *)
(***************************************************************************)
None == <<>>

Some(v) == <<v>>

(***************************************************************************)
(* serde_json::Value                                                       *)
(***************************************************************************)
Null == [t |-> "null"]

JBool(b) == [t |-> "bool", b |-> b]

JStr(s) == [t |-> "str", s |-> s]

\* Number::PosInt(u64)
JPosInt(mag) == [t |-> "num", k |-> "pos", neg |-> FALSE, whole |-> mag, frac |-> 0]

\* Number::NegInt(i64), mag is the absolute value (not zero)
JNegInt(mag) == [t |-> "num", k |-> "neg", neg |-> TRUE, whole |-> mag, frac |-> 0]

\* Number::Float(f64): (-1)^neg * (whole + frac * 10^-9)
JFloat(neg, whole, frac) ==
    [t |-> "num", k |-> "float", neg |-> neg, whole |-> whole, frac |-> frac]

JArr(a) == [t |-> "arr", a |-> a]

JObj(f) == [t |-> "obj", f |-> f]

\* value[key]: Null when the value is not an object or has no such key
Index(v, key) ==
    IF v.t = "obj" /\ key \in DOMAIN v.f THEN v.f[key] ELSE Null

is_null(v) == v.t = "null"

as_str(v) == IF v.t = "str" THEN Some(v.s) ELSE None

as_bool(v) == IF v.t = "bool" THEN Some(v.b) ELSE None

as_array(v) == IF v.t = "arr" THEN Some(v.a) ELSE None

\* Some only for a non-negative integer
as_u64(v) == IF v.t = "num" /\ v.k = "pos" THEN Some(v.whole) ELSE None

\* Some for a negative integer and for a non-negative one up to i64::MAX
as_i64(v) ==
    IF v.t = "num" /\ v.k = "neg" THEN Some([neg |-> TRUE, mag |-> v.whole])
    ELSE IF v.t = "num" /\ v.k = "pos" /\ v.whole[U64Limbs] < LimbBase \div 2
         THEN Some([neg |-> FALSE, mag |-> v.whole])
    ELSE None

\* Some for every number, integers converted to floats
as_f64(v) ==
    IF v.t = "num"
    THEN Some([neg |-> v.neg, whole |-> v.whole, frac |-> v.frac])
    ELSE None

(***************************************************************************)
(* Outcomes of a conversion.                                               *)
(***************************************************************************)
NoResult == [kind |-> "None"]

Panic == [kind |-> "Panic"]

Ok(v) == [kind |-> "Ok", val |-> v]

(***************************************************************************)
(* FundedTx, RawTx, SignedTx, NewAddress                                   *)
(***************************************************************************)
TryIntoFundedTx(j) ==
    LET changepos == as_i64(Index(j, "changepos"))
        hex       == as_str(Index(j, "hex"))
    IN  IF changepos = None \/ hex = None THEN Panic
        ELSE Ok([changepos |-> changepos[1], hex |-> hex[1]])

TryIntoRawTx(j) ==
    LET s == as_str(j)
    IN  IF s = None THEN Panic ELSE Ok(s[1])

TryIntoSignedTx(j) ==
    LET hex      == as_str(Index(j, "hex"))
        complete == as_bool(Index(j, "complete"))
    IN  IF hex = None \/ complete = None THEN Panic
        ELSE Ok([complete |-> complete[1], hex |-> hex[1]])

TryIntoNewAddress(j) ==
    LET s == as_str(j)
    IN  IF s = None THEN Panic ELSE Ok(s[1])

(***************************************************************************)
(* FeeResponse, MempoolMinFeeResponse                                      *)
(***************************************************************************)
U32Max == [i \in 1..U32Limbs |-> LimbBase - 1]

\* the float in units of 10^-9, an integer of Len(f.whole) + 3 limbs
Nano(f) == MulAdd(MulAdd(MulAdd(f.whole, 1000, 0), 1000, 0), 1000, f.frac)

\* |(x * 100_000_000.0 / 4.0).round()|: x * 10^8 / 4 is Nano(x) / 40, and
\* round() rounds half away from zero
RoundedSatPerKw(f) == DivRem(MulAdd(Nano(f), 1, 20), 40)[1]

\* a float with integral magnitude `mag` `as u32`: the cast saturates
F64AsU32(neg, mag) ==
    IF neg THEN Limbs(0, U32Limbs)
    ELSE IF Fits(mag, U32Limbs) THEN Resize(mag, U32Limbs)
    ELSE U32Max

FeerateSatPerKw(feerate_btc_per_kvbyte) ==
    F64AsU32(feerate_btc_per_kvbyte.neg, RoundedSatPerKw(feerate_btc_per_kvbyte))

\* mutant: the rate is dropped when the error flag is set
TryIntoFeeResponseDropsRate(j) ==
    LET errored == ~is_null(Index(j, "errors"))
        feerate == as_f64(Index(j, "feerate"))
    IN  Ok([errored |-> errored,
            feerate_sat_per_kw |->
                IF feerate = None \/ errored THEN None
                ELSE Some(FeerateSatPerKw(feerate[1]))])

\* mutant: a null `errors` counts as an error
TryIntoFeeResponseNullErrors(j) ==
    LET errored == j.t = "obj" /\ "errors" \in DOMAIN j.f
        feerate == as_f64(Index(j, "feerate"))
    IN  Ok([errored |-> errored,
            feerate_sat_per_kw |->
                IF feerate = None THEN None
                ELSE Some(FeerateSatPerKw(feerate[1]))])

TryIntoFeeResponse(j) ==
    LET errored == ~is_null(Index(j, "errors"))
        feerate == as_f64(Index(j, "feerate"))
    IN  Ok([errored |-> errored,
            feerate_sat_per_kw |->
                IF feerate = None THEN None
                ELSE Some(FeerateSatPerKw(feerate[1]))])

ExpectedMaxMempool == 300000000

TryIntoMempoolMinFeeResponse(j) ==
    LET errored == ~is_null(Index(j, "errors"))
        feerate == as_f64(Index(j, "mempoolminfee"))
    IN  IF as_u64(Index(j, "maxmempool")) # Some(Limbs(ExpectedMaxMempool, U64Limbs))
        THEN Panic
        ELSE Ok([errored |-> errored,
                 feerate_sat_per_kw |->
                     IF feerate = None THEN None
                     ELSE Some(FeerateSatPerKw(feerate[1]))])

(***************************************************************************)
(* Hashes, addresses, amounts                                              *)
(***************************************************************************)
HashLen == 32

HexChars ==
    <<"0", "1", "2", "3", "4", "5", "6", "7", "8", "9", "a", "b", "c", "d", "e", "f">>

HexCharsUpper ==
    <<"0", "1", "2", "3", "4", "5", "6", "7", "8", "9", "A", "B", "C", "D", "E", "F">>

IsHexChar(c) == \E i \in 1..16 : HexChars[i] = c \/ HexCharsUpper[i] = c

HexVal(c) == (CHOOSE i \in 1..16 : HexChars[i] = c \/ HexCharsUpper[i] = c) - 1

\* BlockHash::from_hex, Txid::from_str: 2 * HashLen hex digits, the bytes
\* stored in the reverse of the order they are written in
HashFromHex(s) ==
    IF Len(s) # 2 * HashLen \/ \E i \in 1..Len(s) : ~IsHexChar(s[i]) THEN None
    ELSE Some([i \in 1..HashLen |->
                 LET p == 2 * (HashLen - i) + 1
                 IN  HexVal(s[p]) * 16 + HexVal(s[p + 1])])

\* the strings Address::from_str accepts, among those the model draws
AddrA == <<"b", "c", "r", "t", "1", "q", "a">>

AddrB == <<"b", "c", "r", "t", "1", "q", "b">>

AcceptedAddresses == {AddrA, AddrB}

AddressFromStr(s) == IF s \in AcceptedAddresses THEN Some(s) ELSE None

\* mutant: decimals beyond the eighth are cut off
AmountFromBtcTruncating(f) ==
    LET sat == MulAdd(MulAdd(f.whole, 10000, 0), 10000, f.frac \div 10)
    IN  IF f.neg THEN None
        ELSE IF ~Fits(sat, U64Limbs) THEN None
        ELSE Some(Resize(sat, U64Limbs))

\* bitcoin::Amount::from_btc(x).map(to_sat): Err for a negative float, for one
\* with more than 8 decimals and for one beyond u64 satoshis
AmountFromBtc(f) ==
    LET sat == MulAdd(MulAdd(f.whole, 10000, 0), 10000, f.frac \div 10)
    IN  IF f.neg THEN None
        ELSE IF f.frac % 10 # 0 THEN None
        ELSE IF ~Fits(sat, U64Limbs) THEN None
        ELSE Some(Resize(sat, U64Limbs))

(***************************************************************************)
(* BlockchainInfo                                                          *)
(***************************************************************************)
\* `as usize` keeps the low `bits` bits
U64AsUsize(n, bits) == Resize(n, bits \div LimbBits)

TryIntoBlockchainInfo(j, bits) ==
    LET blocks == as_u64(Index(j, "blocks"))
        hashstr == as_str(Index(j, "bestblockhash"))
        hash == IF hashstr = None THEN None ELSE HashFromHex(hashstr[1])
        chain == as_str(Index(j, "chain"))
    IN  IF blocks = None \/ hash = None \/ chain = None THEN Panic
        ELSE Ok([latest_height |-> U64AsUsize(blocks[1], bits),
                 latest_blockhash |-> hash[1],
                 chain |-> chain[1]])

(***************************************************************************)
(* ListUnspentResponse                                                     *)
(***************************************************************************)
U64AsU32(n) == Resize(n, U32Limbs)

\* the closure of the map: None when one of its unwraps panics
ListUnspentUtxo(utxo) ==
    LET txidstr == as_str(Index(utxo, "txid"))
        txid == IF txidstr = None THEN None ELSE HashFromHex(txidstr[1])
        vout == as_u64(Index(utxo, "vout"))
        btc == as_f64(Index(utxo, "amount"))
        amount == IF btc = None THEN None ELSE AmountFromBtc(btc[1])
        addrstr == as_str(Index(utxo, "address"))
        address == IF addrstr = None THEN None ELSE AddressFromStr(addrstr[1])
    IN  IF txid = None \/ vout = None \/ amount = None \/ address = None
        THEN None
        ELSE Some([txid |-> txid[1],
                   vout |-> U64AsU32(vout[1]),
                   amount |-> amount[1],
                   address |-> address[1]])

\* mutant: elements that do not decode are skipped (filter_map)
RECURSIVE Somes(_)
Somes(opts) ==
    IF opts = <<>> THEN <<>>
    ELSE Head(opts) \o Somes(Tail(opts))

TryIntoListUnspentResponseSkipping(j) ==
    LET arr == as_array(j)
    IN  IF arr = None THEN Panic
        ELSE Ok(Somes([i \in 1..Len(arr[1]) |-> ListUnspentUtxo(arr[1][i])]))

\* mutant: the elements are collected in reverse
TryIntoListUnspentResponseReversed(j) ==
    LET arr == as_array(j)
    IN  IF arr = None THEN Panic
        ELSE LET n == Len(arr[1])
                 utxos == [i \in 1..n |-> ListUnspentUtxo(arr[1][n + 1 - i])]
             IN  IF \E i \in 1..n : utxos[i] = None THEN Panic
                 ELSE Ok([i \in 1..n |-> utxos[i][1]])

TryIntoListUnspentResponse(j) ==
    LET arr == as_array(j)
    IN  IF arr = None THEN Panic
        ELSE LET utxos == [i \in 1..Len(arr[1]) |-> ListUnspentUtxo(arr[1][i])]
             IN  IF \E i \in 1..Len(utxos) : utxos[i] = None THEN Panic
                 ELSE Ok([i \in 1..Len(utxos) |-> utxos[i][1]])

(***************************************************************************)
(* The JSON values the conversions are applied to.                         *)
(***************************************************************************)
\* marks a key that an object built by MkObj does not have
Absent == [t |-> "absent"]

\* the object with the keys and values of the pairs whose value is not Absent
MkObj(pairs) ==
    LET present == {i \in 1..Len(pairs) : pairs[i][2] # Absent}
    IN  JObj([key \in {pairs[i][1] : i \in present} |->
                pairs[CHOOSE i \in present : pairs[i][1] = key][2]])

N(n) == Limbs(n, U64Limbs)

Two32Plus1 == <<1, 0, 1, 0>>

Two63 == <<0, 0, 0, LimbBase \div 2>>

Str(s) == JStr(s)

TxHex == <<"0", "2", "0", "0">>

ChainName == <<"m", "a", "i", "n">>

NotAnAddress == <<"x", "y", "z">>

\* "ab" then 62 zeros: the hash whose last byte is 0xab
HexAB == [i \in 1..(2 * HashLen) |-> IF i = 1 THEN "a" ELSE IF i = 2 THEN "B" ELSE "0"]

HexCD == [i \in 1..(2 * HashLen) |-> IF i = 3 THEN "c" ELSE IF i = 4 THEN "d" ELSE "0"]

HexShort == [i \in 1..(2 * HashLen - 2) |-> "0"]

HexNotHex == [i \in 1..(2 * HashLen) |-> IF i = 2 * HashLen THEN "g" ELSE "0"]

\* fee rates in BTC/kvB; none lies on a decimal tie x.5 sat/kW, where the
\* binary representation error of the f64 decides the direction of round()
RateNumbers ==
    { JFloat(FALSE, N(0), 0),            \* 0.0
      JFloat(FALSE, N(0), 10000),        \* 0.00001000 -> 250
      JFloat(FALSE, N(0), 10010),        \* 0.00001001 -> 250.25
      JFloat(FALSE, N(0), 10030),        \* 0.00001003 -> 250.75
      JFloat(FALSE, N(0), 10019),        \* 0.000010019 -> 250.475
      JFloat(FALSE, N(171), 798691800),  \* -> 4294967295 = u32::MAX
      JFloat(FALSE, N(171), 798691840),  \* -> 4294967296
      JFloat(FALSE, N(200), 0),          \* -> 5000000000
      JFloat(TRUE, N(0), 10000),         \* -0.00001000
      JPosInt(N(1)) }                    \* 1 -> 25000000

RateOthers ==
    { Absent, Null, Str(<<"0", ".", "1">>), JBool(TRUE), JArr(<<>>),
      JObj([amount |-> JPosInt(N(1))]) }

ErrorsValues ==
    { Absent, Null, JArr(<<Str(<<"n", "o">>)>>), Str(<<"n", "o">>), JBool(FALSE) }

MaxMempoolValues ==
    { Absent, Null, JPosInt(N(ExpectedMaxMempool)), JPosInt(N(5000000)),
      JPosInt(N(ExpectedMaxMempool + 1)),
      JFloat(FALSE, N(ExpectedMaxMempool), 0), JFloat(FALSE, N(ExpectedMaxMempool), 500000000),
      JNegInt(N(ExpectedMaxMempool)), Str(<<"3">>) }

HexValues == { Absent, Null, Str(TxHex), Str(<<>>), JPosInt(N(2)) }

ScalarInputs ==
    { Null, JBool(TRUE), Str(TxHex), Str(AddrA), Str(<<>>), JPosInt(N(1)),
      JFloat(FALSE, N(0), 10000), JObj(<<>>) }

FundedInputs ==
    { MkObj(<<(<<"changepos", c>>), (<<"hex", h>>)>>) :
        c \in { Absent, Null, JNegInt(N(1)), JPosInt(N(0)), JPosInt(N(1)),
                JPosInt(Two63), JFloat(FALSE, N(1), 0), Str(<<"1">>) },
        h \in HexValues }

SignedInputs ==
    { MkObj(<<(<<"hex", h>>), (<<"complete", c>>)>>) :
        h \in HexValues,
        c \in { Absent, Null, JBool(TRUE), JBool(FALSE), JPosInt(N(1)),
                Str(<<"t", "r", "u", "e">>) } }

FeeInputs ==
    { MkObj(<<(<<"errors", e>>), (<<"feerate", f>>)>>) :
        e \in ErrorsValues, f \in RateNumbers \cup RateOthers }

MempoolInputs ==
    { MkObj(<<(<<"errors", e>>), (<<"mempoolminfee", f>>), (<<"maxmempool", m>>)>>) :
        e \in { Absent, JArr(<<Str(<<"n", "o">>)>>) },
        f \in RateNumbers \cup { Absent, Str(<<"0", ".", "1">>) },
        m \in MaxMempoolValues }

ChainInputs ==
    { MkObj(<<(<<"blocks", b>>), (<<"bestblockhash", h>>), (<<"chain", c>>)>>) :
        b \in { Absent, JPosInt(N(800000)), JPosInt(N(0)), JNegInt(N(1)),
                JPosInt(Two32Plus1), JFloat(FALSE, N(800000), 0), Str(<<"8">>) },
        h \in { Absent, Str(HexAB), Str(HexShort), Str(HexNotHex), JPosInt(N(0)) },
        c \in { Absent, Str(ChainName), JPosInt(N(0)) } }

Utxo(txid, vout, amount, address) ==
    MkObj(<<(<<"txid", txid>>), (<<"vout", vout>>), (<<"amount", amount>>),
            (<<"address", address>>)>>)

\* amounts in BTC
AmountOneAndAHalf == JFloat(FALSE, N(1), 500000000)

AmountOneSat == JFloat(FALSE, N(0), 10)

\* elements that decode
GoodUtxos ==
    { Utxo(Str(HexAB), JPosInt(N(0)), AmountOneAndAHalf, Str(AddrA)),
      Utxo(Str(HexCD), JPosInt(N(1)), AmountOneSat, Str(AddrB)),
      Utxo(Str(HexCD), JPosInt(N(7)), JPosInt(N(2)), Str(AddrA)),
      Utxo(Str(HexAB), JPosInt(Two32Plus1), JFloat(FALSE, N(0), 0), Str(AddrB)) }

\* elements with one field missing, of the wrong type or unparseable
BadUtxos ==
    { Utxo(t, JPosInt(N(0)), AmountOneAndAHalf, Str(AddrA)) :
        t \in { Absent, JPosInt(N(0)), Str(HexShort), Str(HexNotHex) } }
    \cup
    { Utxo(Str(HexAB), v, AmountOneAndAHalf, Str(AddrA)) :
        v \in { Absent, JNegInt(N(1)), JFloat(FALSE, N(1), 0), Str(<<"1">>) } }
    \cup
    { Utxo(Str(HexAB), JPosInt(N(0)), a, Str(AddrA)) :
        a \in { Absent, Str(<<"1", ".", "5">>),
                JFloat(TRUE, N(1), 500000000),   \* -1.5
                JNegInt(N(1)),
                JFloat(FALSE, N(0), 15),         \* 0.000000015
                JFloat(FALSE, N(1), 1) } }       \* 1.000000001
    \cup
    { Utxo(Str(HexAB), JPosInt(N(0)), AmountOneAndAHalf, a) :
        a \in { Absent, Str(NotAnAddress), JPosInt(N(0)) } }
    \cup
    { Str(AddrA) }

RECURSIVE SeqsUpTo(_, _)
SeqsUpTo(S, n) ==
    IF n = 0 THEN {<<>>}
    ELSE LET shorter == SeqsUpTo(S, n - 1)
         IN  shorter \cup {Append(q, x) : q \in shorter, x \in S}

UnspentInputs == {JArr(a) : a \in SeqsUpTo(GoodUtxos \cup BadUtxos, MaxUtxos)}

Inputs ==
    ScalarInputs \cup FundedInputs \cup SignedInputs \cup FeeInputs
        \cup MempoolInputs \cup ChainInputs \cup UnspentInputs

\* the widths of usize of the targets the program builds for
UsizeWidths == {32, 64}

(***************************************************************************)
(* The state machine: one value, one conversion.                           *)
(***************************************************************************)
Init ==
    /\ input \in Inputs
    /\ usizeBits \in UsizeWidths
    /\ called = "none"
    /\ result = NoResult

Call(name, outcome) ==
    /\ called = "none"
    /\ called' = name
    /\ result' = outcome
    /\ UNCHANGED <<input, usizeBits>>

FundedTx == Call("FundedTx", TryIntoFundedTx(input))

RawTx == Call("RawTx", TryIntoRawTx(input))

SignedTx == Call("SignedTx", TryIntoSignedTx(input))

NewAddress == Call("NewAddress", TryIntoNewAddress(input))

FeeResponse == Call("FeeResponse", TryIntoFeeResponse(input))

MempoolMinFeeResponse ==
    Call("MempoolMinFeeResponse", TryIntoMempoolMinFeeResponse(input))

BlockchainInfo == Call("BlockchainInfo", TryIntoBlockchainInfo(input, usizeBits))

ListUnspentResponse == Call("ListUnspentResponse", TryIntoListUnspentResponse(input))

Next ==
    \/ FundedTx
    \/ RawTx
    \/ SignedTx
    \/ NewAddress
    \/ FeeResponse
    \/ MempoolMinFeeResponse
    \/ BlockchainInfo
    \/ ListUnspentResponse

Spec == Init /\ [][Next]_vars

TypeOK ==
    /\ input \in Inputs
    /\ usizeBits \in UsizeWidths
    /\ result.kind \in {"None", "Ok", "Panic"}
    /\ (called = "none") = (result = NoResult)

(***************************************************************************)
(* Vocabulary of the properties, stated on the raw JSON and on numbers,    *)
(* not through the accessors of the conversions.                           *)
(***************************************************************************)
HasKey(v, key) == v.t = "obj" /\ key \in DOMAIN v.f

\* a < b, as numbers
Less(a, b) ==
    LET n == IF Len(a) > Len(b) THEN Len(a) ELSE Len(b)
        x == Resize(a, n)
        y == Resize(b, n)
    IN  \E i \in 1..n : x[i] < y[i] /\ \A k \in (i + 1)..n : x[k] = y[k]

Leq(a, b) == NumEq(a, b) \/ Less(a, b)

\* d = round(x / 40), half away from zero, for x >= 0: 40 d <= x + 20 < 40 d + 40
IsRoundedFortieth(d, x) ==
    /\ Leq(MulAdd(d, 40, 0), MulAdd(x, 1, 20))
    /\ Less(MulAdd(x, 1, 20), MulAdd(d, 40, 40))

FeeCalls == {"FeeResponse", "MempoolMinFeeResponse"}

\* the key that holds the fee rate for the conversion called
RateKey == IF called = "FeeResponse" THEN "feerate" ELSE "mempoolminfee"

IsNumber(v, key) == HasKey(v, key) /\ v.f[key].t = "num"

ErrorsNonNull == HasKey(input, "errors") /\ input.f["errors"].t # "null"

MaxMempoolIsExpected ==
    /\ HasKey(input, "maxmempool")
    /\ input.f["maxmempool"].t = "num"
    /\ input.f["maxmempool"].k = "pos"
    /\ NumEq(input.f["maxmempool"].whole, Limbs(ExpectedMaxMempool, U64Limbs))

IsHashString(v) ==
    /\ v.t = "str"
    /\ Len(v.s) = 2 * HashLen
    /\ \A i \in 1..Len(v.s) : IsHexChar(v.s[i])

\* an amount that is a number, not negative, a whole number of satoshis
IsExactAmount(v) == v.t = "num" /\ ~v.neg /\ v.frac % 10 = 0

\* an element of the unspent list with a field missing, of the wrong JSON
\* type or unparseable
BadUtxo(e) ==
    \/ ~HasKey(e, "txid") \/ ~HasKey(e, "vout")
    \/ ~HasKey(e, "amount") \/ ~HasKey(e, "address")
    \/ ~IsHashString(e.f["txid"])
    \/ e.f["vout"].t # "num" \/ e.f["vout"].k # "pos"
    \/ ~IsExactAmount(e.f["amount"])
    \/ e.f["address"].t # "str" \/ e.f["address"].s \notin AcceptedAddresses

(***************************************************************************)
(* C1: mempool-minimum-fee decoding of an input whose `maxmempool` is not  *)
(* the integer 300,000,000 produces no value and fails with a decode error *)
(* returned to the caller (an Err, not a panic).                           *)
(***************************************************************************)
C1_MaxMempoolMismatchIsErr ==
    (called = "MempoolMinFeeResponse" /\ ~MaxMempoolIsExpected)
        => result.kind = "Err"

(***************************************************************************)
(* C2: for every fee rate r >= 0 in the fee-rate field, both fee decoders  *)
(* give feerate_sat_per_kw = round(r * 10^8 / 4).                          *)
(***************************************************************************)
C2_FeerateIsRounded ==
    (/\ called \in FeeCalls
     /\ result.kind = "Ok"
     /\ IsNumber(input, RateKey)
     /\ ~input.f[RateKey].neg)
        => /\ result.val.feerate_sat_per_kw # None
           /\ IsRoundedFortieth(result.val.feerate_sat_per_kw[1],
                                Nano(input.f[RateKey]))

(***************************************************************************)
(* C3, as claimed: no value decoded by a fee decoder has the rate present  *)
(* and the error flag true.                                                *)
(***************************************************************************)
C3_NeverPresentAndErrored ==
    (called \in FeeCalls /\ result.kind = "Ok")
        => ~(result.val.feerate_sat_per_kw # None /\ result.val.errored)

(***************************************************************************)
(* C3, amended: a value decoded by a fee decoder has the rate present and  *)
(* the error flag true exactly when the input holds both a non-null        *)
(* `errors` and a numeric fee-rate field; every other input decodes to a   *)
(* value with the rate absent or the error flag false.                     *)
(***************************************************************************)
C3_PresentAndErroredIffBoth ==
    (called \in FeeCalls /\ result.kind = "Ok")
        => ((result.val.feerate_sat_per_kw # None /\ result.val.errored)
                <=> (ErrorsNonNull /\ IsNumber(input, RateKey)))

C3_Witness ==
    /\ called = "FeeResponse"
    /\ result.kind = "Ok"
    /\ ErrorsNonNull
    /\ IsNumber(input, "feerate")
    /\ result.val.errored
    /\ result.val.feerate_sat_per_kw = Some(Limbs(250, U32Limbs))

(***************************************************************************)
(* C4: fee-estimate decoding always succeeds; its error flag is true       *)
(* exactly when the `errors` key is present and not null, whatever         *)
(* `feerate` holds; its rate is absent whenever `feerate` is absent,       *)
(* whatever `errors` holds.                                                *)
(***************************************************************************)
C4_FieldsIndependent ==
    called = "FeeResponse"
        => /\ result.kind = "Ok"
           /\ result.val.errored = ErrorsNonNull
           /\ (~HasKey(input, "feerate") => result.val.feerate_sat_per_kw = None)

C4_Witness ==
    /\ called = "FeeResponse"
    /\ ErrorsNonNull
    /\ ~HasKey(input, "feerate")
    /\ result = Ok([errored |-> TRUE, feerate_sat_per_kw |-> None])

(***************************************************************************)
(* C5: when the funded-transaction, raw-transaction, signed-transaction,   *)
(* new-address or chain-tip conversion does not produce a value, it        *)
(* returns a decode error (Err) to its caller and ends in no other way.    *)
(***************************************************************************)
C5_FailureIsErr ==
    (/\ called \in {"FundedTx", "RawTx", "SignedTx", "NewAddress", "BlockchainInfo"}
     /\ result.kind # "Ok")
        => result.kind = "Err"

(***************************************************************************)
(* C6: unspent-list decoding returns no list when the body is not a        *)
(* sequence or when an element at any position has a missing, wrong-typed  *)
(* or unparseable txid, vout, amount or address.                           *)
(***************************************************************************)
C6_AllOrNothing ==
    (/\ called = "ListUnspentResponse"
     /\ \/ input.t # "arr"
        \/ \E i \in 1..Len(input.a) : BadUtxo(input.a[i]))
        => result.kind # "Ok"

C6_Witness ==
    /\ called = "ListUnspentResponse"
    /\ input.t = "arr"
    /\ Len(input.a) = 2
    /\ ~BadUtxo(input.a[1])
    /\ BadUtxo(input.a[2])
    /\ result.kind = "Panic"

(***************************************************************************)
(* C7: a successful unspent-list decoding of n elements has n entries,     *)
(* and entry i is the decoding of element i.                               *)
(***************************************************************************)
C7_OrderAndLength ==
    (called = "ListUnspentResponse" /\ result.kind = "Ok")
        => /\ Len(result.val) = Len(input.a)
           /\ \A i \in 1..Len(input.a) :
                /\ Some(result.val[i]) = ListUnspentUtxo(input.a[i])
                /\ result.val[i].address = input.a[i].f["address"].s

C7_Witness ==
    /\ called = "ListUnspentResponse"
    /\ result.kind = "Ok"
    /\ Len(input.a) = 2
    /\ Len(result.val) = 2
    /\ result.val[1].address = AddrA
    /\ result.val[2].address = AddrB
    /\ result.val[1].txid[HashLen] = 171

(***************************************************************************)
(* C8: every decoded amount is the input amount times 10^8 exactly, and an *)
(* input amount that is negative or not a whole number of satoshis is      *)
(* never decoded.                                                          *)
(***************************************************************************)
C8_AmountExact ==
    called = "ListUnspentResponse"
        => /\ result.kind = "Ok" =>
                \A i \in 1..Len(input.a) :
                    /\ ~input.a[i].f["amount"].neg
                    /\ NumEq(MulAdd(result.val[i].amount, 10, 0),
                             Nano(input.a[i].f["amount"]))
           /\ (/\ input.t = "arr"
               /\ \E i \in 1..Len(input.a) :
                    /\ IsNumber(input.a[i], "amount")
                    /\ ~IsExactAmount(input.a[i].f["amount"]))
                => result.kind # "Ok"

C8_Witness ==
    /\ called = "ListUnspentResponse"
    /\ result.kind = "Ok"
    /\ Len(input.a) >= 1
    /\ input.a[1].f["amount"] = AmountOneAndAHalf
    /\ result.val[1].amount = Limbs(150000000, U64Limbs)

(***************************************************************************)
(* C9: whenever decoding succeeds, the decoded `vout` of every unspent     *)
(* output and the decoded `latest_height` are numerically equal to the     *)
(* input `vout` and `blocks`.                                              *)
(***************************************************************************)
C9_NoWrap ==
    /\ (called = "ListUnspentResponse" /\ result.kind = "Ok")
          => \A i \in 1..Len(input.a) :
                NumEq(result.val[i].vout, input.a[i].f["vout"].whole)
    /\ (called = "BlockchainInfo" /\ result.kind = "Ok")
          => NumEq(result.val.latest_height, input.f["blocks"].whole)

(***************************************************************************)
(* C10: a fee decoder given a fee-rate field that exists and is a string,  *)
(* boolean, array or object does not decode it (as "rate absent").         *)
(***************************************************************************)
C10_WrongTypeNotSwallowed ==
    (/\ called \in FeeCalls
     /\ HasKey(input, RateKey)
     /\ input.f[RateKey].t \in {"str", "bool", "arr", "obj"})
        => result.kind # "Ok"

=============================================================================
